---- MODULE Spec2Model ----
(***************************************************************************)
(* Model of generer_dataset.py: a batch script that loads a CSV of student *)
(* predictors, checks the required columns, adds Final_Exam_Score and      *)
(* Passed_Course, and exports the table as CSV.                            *)
(*                                                                         *)
(* Numbers are fixed point with Scale units per 1.0 (8.0 is 80000).  A     *)
(* text cell of a CSV file is a pair <<kind, v>> with kind "" (empty),     *)
(* "i" (integer literal v), "f" (float literal, v in fixed point) or "s"   *)
(* (non numeric text).  A DataFrame cell is <<"nan", 0>>, <<"int", n>>     *)
(* (int64), <<"num", x>> (float64, fixed point) or <<"obj", 0>> (a Python  *)
(* str in an object column).  A DataFrame is a sequence of columns         *)
(* [name, dtype, vals].                                                    *)
(***************************************************************************)
EXTENDS Integers, Sequences, FiniteSets, TLC

VARIABLES fs_input, fs_output, bruit_amplitude, data, bruit_aleatoire,
          pc, err, missing

vars == <<fs_input, fs_output, bruit_amplitude, data, bruit_aleatoire,
          pc, err, missing>>

(* ---------------------------- bounds ----------------------------------- *)
MaxRows == 2

(* ------------------------ fixed point scale ---------------------------- *)
Scale == 10000

(* ------------------------- configuration ------------------------------- *)
base_score == 80000
weight_hours == 6000
weight_prev == 1500
weight_attendance == 200
bruit_amplitude_default == 15000
note_passage == 150000
clip_lower == 0
clip_upper == 200000

required_predictors == <<"Hours_Studied", "Previous_Score", "Attendance_Rate">>

(* The amplitude is a module-level setting; 0 is the noise-free setting.   *)
Amplitudes == {0, bruit_amplitude_default}

(* Values np.random.rand can return, in fixed point: a sample of [0, 1).   *)
RandDraws == {0, 5000, 9900}

(* ------------------------------ cells ---------------------------------- *)
NaN == <<"nan", 0>>
Obj == <<"obj", 0>>
Num(x) == <<"num", x>>
I64(n) == <<"int", n>>

TxtEmpty == <<"", 0>>
TxtStr == <<"s", 0>>
TxtInt(n) == <<"i", n>>
TxtFloat(x) == <<"f", x>>

IsNumber(c) == c[1] \in {"num", "int"}

\* the float value of a numeric DataFrame cell, in fixed point
AsFloat(c) == IF c[1] = "int" THEN c[2] * Scale ELSE c[2]

(* ------------------------------ files ---------------------------------- *)
NoFile == [kind |-> "absent", header |-> <<>>, rows |-> <<>>]
GarbageFile == [kind |-> "garbage", header |-> <<>>, rows |-> <<>>]
StaleFile == [kind |-> "table", header |-> <<"stale">>, rows |-> <<>>]
TruncatedFile == [kind |-> "table", header |-> <<>>, rows |-> <<>>]

\* predictor cells of the sample rows: <<Hours_Studied, Previous_Score, Attendance_Rate>>
Profiles ==
  { <<TxtInt(10), TxtInt(80), TxtInt(90)>>,
    <<TxtInt(0), TxtInt(0), TxtInt(0)>>,
    <<TxtInt(5), TxtInt(20), TxtInt(50)>>,
    <<TxtInt(-20), TxtInt(0), TxtInt(0)>>,
    <<TxtEmpty, TxtInt(0), TxtInt(0)>>,
    <<TxtStr, TxtInt(0), TxtInt(0)>> }

ExtraCell == TxtInt(7)

\* names an additional (non required) input column may carry
ExtraNames == {"Notes", "Final_Exam_Score_brut", "Final_Exam_Score", "Passed_Course"}

Headers ==
  { SelectSeq(required_predictors, LAMBDA c : c \in req) \o ext :
      req \in SUBSET {required_predictors[k] : k \in 1..3},
      ext \in {<<>>} \cup {<<x>> : x \in ExtraNames} }

ProfileCell(p, c) ==
  CASE c = "Hours_Studied" -> p[1]
    [] c = "Previous_Score" -> p[2]
    [] c = "Attendance_Rate" -> p[3]
    [] OTHER -> ExtraCell

MkFile(header, profs) ==
  [kind |-> "table",
   header |-> header,
   rows |-> [i \in 1..Len(profs) |->
               [k \in 1..Len(header) |-> ProfileCell(profs[i], header[k])]]]

InputFiles ==
  {NoFile, GarbageFile} \cup
  { MkFile(h, profs) :
      h \in Headers,
      profs \in UNION {[1..n -> Profiles] : n \in 0..MaxRows} }

(* --------------------------- pandas helpers ---------------------------- *)
NoFrame == <<>>

NRows(df) == IF df = <<>> THEN 0 ELSE Len(df[1].vals)

Columns(df) == {df[k].name : k \in 1..Len(df)}

ColumnNames(df) == [k \in 1..Len(df) |-> df[k].name]

GetColumn(df, name) == df[CHOOSE k \in 1..Len(df) : df[k].name = name]

\* data[name] = values : replaces the column in place, or appends it
SetColumn(df, name, dtype, vals) ==
  LET col == [name |-> name, dtype |-> dtype, vals |-> vals]
  IN  IF name \in Columns(df)
        THEN [k \in 1..Len(df) |-> IF df[k].name = name THEN col ELSE df[k]]
        ELSE Append(df, col)

\* data.drop(columns=[name])
DropColumn(df, name) == SelectSeq(df, LAMBDA col : col.name # name)

\* pd.read_csv can parse the file: it exists, is a delimited table and has columns
Parseable(f) == f.kind = "table" /\ Len(f.header) > 0

\* dtype inference of pd.read_csv for one column of text cells
InferDtype(txts) ==
  IF Len(txts) = 0 THEN "object"
  ELSE IF \E i \in 1..Len(txts) : txts[i][1] = "s" THEN "object"
  ELSE IF \E i \in 1..Len(txts) : txts[i][1] \in {"", "f"} THEN "float64"
  ELSE "int64"

ParseCell(t, dtype) ==
  IF t[1] = "" THEN NaN
  ELSE IF dtype = "object" THEN Obj
  ELSE IF dtype = "int64" THEN I64(t[2])
  ELSE IF t[1] = "i" THEN Num(t[2] * Scale)
  ELSE Num(t[2])

read_csv(f) ==
  [k \in 1..Len(f.header) |->
     LET txts == [i \in 1..Len(f.rows) |-> f.rows[i][k]]
         dt == InferDtype(txts)
     IN  [name |-> f.header[k], dtype |-> dt,
          vals |-> [i \in 1..Len(txts) |-> ParseCell(txts[i], dt)]]]

FormatCell(c) ==
  CASE c[1] = "nan" -> TxtEmpty
    [] c[1] = "obj" -> TxtStr
    [] c[1] = "int" -> TxtInt(c[2])
    [] OTHER -> TxtFloat(c[2])

\* DataFrame.to_csv: a header line and one line per row; index=True adds
\* a leading unnamed column holding the row index
to_csv(df, index) ==
  [kind |-> "table",
   header |-> IF index THEN <<"">> \o ColumnNames(df) ELSE ColumnNames(df),
   rows |-> [i \in 1..NRows(df) |->
               (IF index THEN <<TxtInt(i - 1)>> ELSE <<>>) \o
               [k \in 1..Len(df) |-> FormatCell(df[k].vals[i])]]]

(* ---------------------------- arithmetic ------------------------------- *)
\* float * Series element
FMul(w, c) ==
  IF c[1] = "nan" THEN NaN
  ELSE IF c[1] = "int" THEN Num(w * c[2])
  ELSE Num((w * c[2]) \div Scale)

\* element + element
FAdd(a, b) ==
  IF a[1] = "nan" \/ b[1] = "nan" THEN NaN ELSE Num(AsFloat(a) + AsFloat(b))

\* variant: the amplitude scales the offset instead of the centred draw
Bruit_offset(rand, amplitude) ==
  [i \in 1..Len(rand) |-> rand[i] - ((Scale \div 2) * amplitude) \div Scale]

\* (np.random.rand(n) - 0.5) * bruit_amplitude
Bruit(rand, amplitude) ==
  [i \in 1..Len(rand) |-> ((rand[i] - (Scale \div 2)) * amplitude) \div Scale]

\* float * str raises TypeError: the sum can be evaluated only when no
\* predictor cell is a Python string
CanCompute(df) ==
  \A k \in 1..3 : \A i \in 1..NRows(df) :
     GetColumn(df, required_predictors[k]).vals[i] # Obj

Final_Exam_Score_brut(df, bruit) ==
  LET H == GetColumn(df, "Hours_Studied").vals
      P == GetColumn(df, "Previous_Score").vals
      A == GetColumn(df, "Attendance_Rate").vals
  IN  [i \in 1..NRows(df) |->
         FAdd(FAdd(FAdd(FAdd(Num(base_score), FMul(weight_hours, H[i])),
                        FMul(weight_prev, P[i])),
                   FMul(weight_attendance, A[i])),
              Num(bruit[i]))]

\* variant: the upper bound is not applied
clip_lower_only(c, lower, upper) ==
  IF c[1] = "nan" THEN NaN
  ELSE IF AsFloat(c) < lower THEN Num(lower)
  ELSE c

\* Series.clip(lower, upper) element: missing values are left as they are
clip(c, lower, upper) ==
  IF c[1] = "nan" THEN NaN
  ELSE IF AsFloat(c) < lower THEN Num(lower)
  ELSE IF AsFloat(c) > upper THEN Num(upper)
  ELSE c

\* variant: strict comparison
Passed_strict(c, threshold) ==
  I64(IF c[1] # "nan" /\ AsFloat(c) > threshold THEN 1 ELSE 0)

\* (element >= note_passage).astype(int): a comparison with NaN is False
Passed(c, threshold) ==
  I64(IF c[1] # "nan" /\ AsFloat(c) >= threshold THEN 1 ELSE 0)

(* ------------------------ the pipeline steps --------------------------- *)
ComputeStep(df, bruit) ==
  SetColumn(df, "Final_Exam_Score_brut", "float64", Final_Exam_Score_brut(df, bruit))

ClampStep(df) ==
  SetColumn(df, "Final_Exam_Score", "float64",
            [i \in 1..NRows(df) |->
               clip(GetColumn(df, "Final_Exam_Score_brut").vals[i], clip_lower, clip_upper)])

DeriveStep(df) ==
  SetColumn(df, "Passed_Course", "int64",
            [i \in 1..NRows(df) |->
               Passed(GetColumn(df, "Final_Exam_Score").vals[i], note_passage)])

DropStep(df) == DropColumn(df, "Final_Exam_Score_brut")

\* variant: the report lists every required column
MissingColumns_all(df) == required_predictors

\* the columns of required_predictors that are not in the table, in order
MissingColumns(df) == SelectSeq(required_predictors, LAMBDA c : c \notin Columns(df))

(* ------------------------------ state ---------------------------------- *)
Init ==
  /\ fs_input \in InputFiles
  /\ fs_output \in {NoFile, StaleFile}
  /\ bruit_amplitude \in Amplitudes
  /\ data = NoFrame
  /\ bruit_aleatoire = <<>>
  /\ pc = "check_exists"
  /\ err = "none"
  /\ missing = <<>>

\* variant: the existence test is skipped
CheckExists_skipped ==
  /\ pc = "check_exists"
  /\ pc' = "read_csv"
  /\ UNCHANGED <<fs_input, fs_output, bruit_amplitude, data, bruit_aleatoire, err, missing>>

\* lines 44-47: os.path.exists
CheckExists ==
  /\ pc = "check_exists"
  /\ IF fs_input.kind = "absent"
       THEN pc' = "exited" /\ err' = "NotFound"
       ELSE pc' = "read_csv" /\ err' = err
  /\ UNCHANGED <<fs_input, fs_output, bruit_amplitude, data, bruit_aleatoire, missing>>

\* lines 49-61: pd.read_csv inside try/except
ReadCsv ==
  /\ pc = "read_csv"
  /\ IF Parseable(fs_input)
       THEN data' = read_csv(fs_input) /\ pc' = "validate" /\ err' = err
       ELSE data' = data /\ pc' = "exited" /\ err' = "LoadError"
  /\ UNCHANGED <<fs_input, fs_output, bruit_amplitude, bruit_aleatoire, missing>>

\* lines 64-69: required columns
Validate ==
  /\ pc = "validate"
  /\ IF \A k \in 1..3 : required_predictors[k] \in Columns(data)
       THEN pc' = "compute" /\ err' = err /\ missing' = missing
       ELSE pc' = "exited" /\ err' = "SchemaError" /\ missing' = MissingColumns(data)
  /\ UNCHANGED <<fs_input, fs_output, bruit_amplitude, data, bruit_aleatoire>>

\* lines 78-85: the noise draw and the raw score
Compute ==
  /\ pc = "compute"
  /\ \E rand \in [1..NRows(data) -> RandDraws] :
       /\ bruit_aleatoire' = Bruit(rand, bruit_amplitude)
       /\ IF CanCompute(data)
            THEN data' = ComputeStep(data, bruit_aleatoire') /\ pc' = "clamp" /\ err' = err
            ELSE data' = data /\ pc' = "crashed" /\ err' = "TypeError"
  /\ UNCHANGED <<fs_input, fs_output, bruit_amplitude, missing>>

\* line 89
Clamp ==
  /\ pc = "clamp"
  /\ data' = ClampStep(data)
  /\ pc' = "derive"
  /\ UNCHANGED <<fs_input, fs_output, bruit_amplitude, bruit_aleatoire, err, missing>>

\* line 94
Derive ==
  /\ pc = "derive"
  /\ data' = DeriveStep(data)
  /\ pc' = "drop"
  /\ UNCHANGED <<fs_input, fs_output, bruit_amplitude, bruit_aleatoire, err, missing>>

\* line 97
Drop ==
  /\ pc = "drop"
  /\ data' = DropStep(data)
  /\ pc' = "persist"
  /\ UNCHANGED <<fs_input, fs_output, bruit_amplitude, bruit_aleatoire, err, missing>>

\* what a failed write can leave at the destination: nothing new (the file
\* could not be opened), an empty file, or the header and the first rows
FailedWrites(full, before) ==
  {before, TruncatedFile} \cup
  { [full EXCEPT !.rows = SubSeq(full.rows, 1, k)] : k \in 0..(Len(full.rows) - 1) }

\* variant: a failed export is attempted again
Persist_retry ==
  /\ pc = "persist"
  /\ \/ fs_output' = to_csv(data, FALSE) /\ err' = err /\ pc' = "done"
     \/ fs_output' \in FailedWrites(to_csv(data, FALSE), fs_output)
          /\ err' = "WriteError" /\ pc' = "persist"
  /\ UNCHANGED <<fs_input, bruit_amplitude, data, bruit_aleatoire, missing>>

\* lines 108-119: data.to_csv inside try/except, then the final message
Persist ==
  /\ pc = "persist"
  /\ \/ fs_output' = to_csv(data, FALSE) /\ err' = err
     \/ fs_output' \in FailedWrites(to_csv(data, FALSE), fs_output) /\ err' = "WriteError"
  /\ pc' = "done"
  /\ UNCHANGED <<fs_input, bruit_amplitude, data, bruit_aleatoire, missing>>

Next ==
  \/ CheckExists
  \/ ReadCsv
  \/ Validate
  \/ Compute
  \/ Clamp
  \/ Derive
  \/ Drop
  \/ Persist

Spec == Init /\ [][Next]_vars

FairSpec == Spec /\ WF_vars(Next)

Terminated == pc \in {"exited", "crashed", "done"}

TypeOK ==
  /\ pc \in {"check_exists", "read_csv", "validate", "compute", "clamp",
             "derive", "drop", "persist", "exited", "crashed", "done"}
  /\ err \in {"none", "NotFound", "LoadError", "SchemaError", "TypeError", "WriteError"}
  /\ bruit_amplitude \in Amplitudes


(* ----------------- vocabulary of the properties below ------------------ *)
Success == pc = "done" /\ err = "none"

\* the run has written nothing at the destination
OutputUntouched == fs_output \in {NoFile, StaleFile}

FileCell(f, i, name) ==
  f.rows[i][CHOOSE k \in 1..Len(f.header) : f.header[k] = name]

HeaderSet(f) == {f.header[k] : k \in 1..Len(f.header)}

TxtIsNumber(t) == t[1] \in {"i", "f"}

TxtVal(t) == IF t[1] = "i" THEN t[2] * Scale ELSE t[2]

\* two text cells denote the same value
SameValue(t, u) ==
  IF TxtIsNumber(t) /\ TxtIsNumber(u) THEN TxtVal(t) = TxtVal(u) ELSE t = u

MinOf(a, b) == IF b < a THEN b ELSE a
MaxOf(a, b) == IF b > a THEN b ELSE a

RequiredSet == {"Hours_Studied", "Previous_Score", "Attendance_Rate"}

(* C1: every row of the table handed to Persist has a Final_Exam_Score     *)
(* that is a number between 0.0 and 20.0, whatever the predictor cells.    *)
C1_ScoreWithinBounds ==
  pc \in {"persist", "done"} =>
    \A i \in 1..NRows(data) :
      LET f == GetColumn(data, "Final_Exam_Score").vals[i]
      IN  IsNumber(f) /\ 0 <= AsFloat(f) /\ AsFloat(f) <= 200000

(* C2: in every row Passed_Course is 1 exactly when Final_Exam_Score is a  *)
(* number >= 15.0 and is 0 otherwise, in the table after Derive and in the *)
(* exported file.                                                          *)
C2_PassedIffThreshold ==
  /\ pc \in {"drop", "persist", "done"} =>
       \A i \in 1..NRows(data) :
         LET f == GetColumn(data, "Final_Exam_Score").vals[i]
             p == GetColumn(data, "Passed_Course").vals[i]
         IN  /\ p \in {<<"int", 0>>, <<"int", 1>>}
             /\ (p = <<"int", 1>>) <=> (IsNumber(f) /\ AsFloat(f) >= 150000)
  /\ Success =>
       \A i \in 1..Len(fs_output.rows) :
         LET f == FileCell(fs_output, i, "Final_Exam_Score")
             p == FileCell(fs_output, i, "Passed_Course")
         IN  /\ p \in {<<"i", 0>>, <<"i", 1>>}
             /\ (p = <<"i", 1>>) <=> (TxtIsNumber(f) /\ TxtVal(f) >= 150000)

\* a row exactly at the threshold passes, next to a row that fails
C2_Witness ==
  /\ Success
  /\ \E i, j \in 1..Len(fs_output.rows) :
       /\ FileCell(fs_output, i, "Final_Exam_Score") = <<"f", 150000>>
       /\ FileCell(fs_output, i, "Passed_Course") = <<"i", 1>>
       /\ FileCell(fs_output, j, "Passed_Course") = <<"i", 0>>

(* C3: the exported table has as many rows as the input, in the same       *)
(* order, and every cell of an input column has the value it had in the    *)
(* input.                                                                  *)
C3_RowsAndCellsPreserved ==
  Success =>
    /\ Len(fs_output.rows) = Len(fs_input.rows)
    /\ \A i \in 1..Len(fs_input.rows) :
         \A c \in HeaderSet(fs_input) :
           /\ c \in HeaderSet(fs_output)
           /\ SameValue(FileCell(fs_output, i, c), FileCell(fs_input, i, c))

(* C4: when a required column is absent from the loaded table the run      *)
(* ends at validation with SchemaError, reports exactly the absent         *)
(* required columns, computes nothing and writes nothing.                  *)
C4_SchemaGate ==
  (/\ Parseable(fs_input)
   /\ ~(RequiredSet \subseteq HeaderSet(fs_input))
   /\ pc \notin {"check_exists", "read_csv", "validate"}) =>
    /\ pc = "exited"
    /\ err = "SchemaError"
    /\ {missing[k] : k \in 1..Len(missing)} = RequiredSet \ HeaderSet(fs_input)
    /\ Len(missing) = Cardinality(RequiredSet \ HeaderSet(fs_input))
    /\ bruit_aleatoire = <<>>
    /\ data = read_csv(fs_input)
    /\ OutputUntouched

C4_Witness ==
  /\ pc = "exited"
  /\ err = "SchemaError"
  /\ missing = <<"Attendance_Rate">>
  /\ Len(fs_input.rows) > 0

(* C5: when the input path does not exist the run ends with NotFound       *)
(* before anything is parsed, validated, computed or written.              *)
C5_MissingFileGate ==
  (fs_input.kind = "absent" /\ pc # "check_exists") =>
    /\ pc = "exited"
    /\ err = "NotFound"
    /\ data = NoFrame
    /\ missing = <<>>
    /\ bruit_aleatoire = <<>>
    /\ OutputUntouched

C5_Witness == fs_input.kind = "absent" /\ pc = "exited" /\ err = "NotFound"

(* C6: the run is all or nothing: the destination holds something the run  *)
(* wrote only if every stage succeeded; a failure in Persist leaves no     *)
(* partial file.                                                           *)
C6_AllOrNothing ==
  Terminated => (OutputUntouched \/ Success)

(* C7: the exported columns are exactly the input columns plus             *)
(* Final_Exam_Score and Passed_Course; every non required input column is  *)
(* exported with unchanged values, the raw score column is not exported    *)
(* and there is no row-index column.                                       *)
C7_ColumnsPassedThrough ==
  Success =>
    /\ HeaderSet(fs_output) =
         HeaderSet(fs_input) \cup {"Final_Exam_Score", "Passed_Course"}
    /\ Len(fs_output.header) = Cardinality(HeaderSet(fs_output))
    /\ \A c \in HeaderSet(fs_input) \ RequiredSet :
         /\ c \in HeaderSet(fs_output)
         /\ \A i \in 1..Len(fs_input.rows) :
              SameValue(FileCell(fs_output, i, c), FileCell(fs_input, i, c))
    /\ "Final_Exam_Score_brut" \notin HeaderSet(fs_output)
    /\ "" \notin HeaderSet(fs_output)


(* C8: Final_Exam_Score[i] = min(max(raw[i], 0.0), 20.0) with              *)
(* raw[i] = 8.0 + 0.6*Hours_Studied[i] + 0.15*Previous_Score[i]            *)
(*          + 0.02*Attendance_Rate[i] + noise[i],                          *)
(* |noise[i]| <= amplitude/2; a missing predictor makes raw, and so the    *)
(* min/max of it, NaN.  With noise 0 the row (10, 80, 90) gives 20.0 and   *)
(* Passed_Course 1, the row (0, 0, 0) gives 8.0 and Passed_Course 0.       *)
C8_ScoreFormula ==
  /\ pc \in {"clamp", "derive", "drop", "persist", "done"} =>
       /\ Len(bruit_aleatoire) = Len(fs_input.rows)
       /\ \A i \in 1..Len(bruit_aleatoire) :
            /\ -bruit_amplitude <= 2 * bruit_aleatoire[i]
            /\ 2 * bruit_aleatoire[i] <= bruit_amplitude
  /\ pc \in {"derive", "drop", "persist", "done"} =>
       \A i \in 1..Len(fs_input.rows) :
         LET h == FileCell(fs_input, i, "Hours_Studied")
             p == FileCell(fs_input, i, "Previous_Score")
             a == FileCell(fs_input, i, "Attendance_Rate")
             f == GetColumn(data, "Final_Exam_Score").vals[i]
             raw == 80000 + (6000 * TxtVal(h)) \div Scale
                          + (1500 * TxtVal(p)) \div Scale
                          + (200 * TxtVal(a)) \div Scale
                          + bruit_aleatoire[i]
         IN  IF TxtIsNumber(h) /\ TxtIsNumber(p) /\ TxtIsNumber(a)
               THEN f = <<"num", MinOf(MaxOf(raw, 0), 200000)>>
               ELSE f = <<"nan", 0>>
  /\ pc \in {"drop", "persist", "done"} =>
       \A i \in 1..Len(fs_input.rows) :
         LET row == <<FileCell(fs_input, i, "Hours_Studied"),
                      FileCell(fs_input, i, "Previous_Score"),
                      FileCell(fs_input, i, "Attendance_Rate")>>
             f == GetColumn(data, "Final_Exam_Score").vals[i]
             q == GetColumn(data, "Passed_Course").vals[i]
         IN  bruit_aleatoire[i] = 0 =>
               /\ row = <<TxtInt(10), TxtInt(80), TxtInt(90)>> =>
                    (f = <<"num", 200000>> /\ q = <<"int", 1>>)
               /\ row = <<TxtInt(0), TxtInt(0), TxtInt(0)>> =>
                    (f = <<"num", 80000>> /\ q = <<"int", 0>>)

\* both scenario rows processed with a zero draw of the default amplitude
C8_Witness ==
  /\ pc = "drop"
  /\ bruit_amplitude = 15000
  /\ Len(fs_input.rows) = 2
  /\ bruit_aleatoire = <<0, 0>>
  /\ FileCell(fs_input, 1, "Hours_Studied") = TxtInt(10)
  /\ FileCell(fs_input, 2, "Previous_Score") = TxtInt(0)
  /\ FileCell(fs_input, 2, "Hours_Studied") = TxtInt(0)

(* C9: with amplitude 0 the exported file is the same whatever the random  *)
(* generator returns: it equals the export of the run on the same input    *)
(* under every other draw.                                                 *)
C9_DeterministicWithoutNoise ==
  (Success /\ bruit_amplitude = 0) =>
    \A rand \in [1..Len(fs_input.rows) -> RandDraws] :
      fs_output =
        to_csv(DropStep(DeriveStep(ClampStep(
                 ComputeStep(read_csv(fs_input), Bruit(rand, 0))))), FALSE)

C9_Witness ==
  /\ Success
  /\ bruit_amplitude = 0
  /\ Len(fs_input.rows) >= 1
  /\ \E i \in 1..Len(fs_output.rows) :
       FileCell(fs_output, i, "Final_Exam_Score") = <<"f", 150000>>

(* C10: a run is one forward pass Load, Validate, Compute, Clamp, Derive,  *)
(* Persist: every step moves to the next stage or ends the run, the end    *)
(* after Persist is reached only from Persist, Persist starts only on a    *)
(* validated table carrying the derived columns, and every run ends.       *)
Rank(p) ==
  CASE p = "check_exists" -> 1
    [] p = "read_csv" -> 2
    [] p = "validate" -> 3
    [] p = "compute" -> 4
    [] p = "clamp" -> 5
    [] p = "derive" -> 6
    [] p = "drop" -> 7
    [] p = "persist" -> 8
    [] OTHER -> 9

C10_SingleForwardPass ==
  /\ [][/\ ~Terminated
        /\ Rank(pc') > Rank(pc)
        /\ (Rank(pc') < 9 => Rank(pc') = Rank(pc) + 1)
        /\ (pc' = "done" <=> pc = "persist")]_vars
  /\ [](pc = "persist" =>
          /\ err = "none"
          /\ RequiredSet \subseteq Columns(data)
          /\ {"Final_Exam_Score", "Passed_Course"} \subseteq Columns(data))
  /\ <>Terminated

C10_Witness == Success /\ Len(fs_output.rows) = Len(fs_input.rows) /\ Len(fs_input.rows) > 0

====
